---------------------------- MODULE Spec2Model ----------------------------
(***************************************************************************)
(* A model of pyskoob's temporal utilities and the code built on them:     *)
(*   - RateLimiter            (pyskoob/utils/rate_limiter.py)              *)
(*   - ExponentialBackoff     (pyskoob/utils/backoff.py)                   *)
(*   - HttpxSyncClient / HttpxAsyncClient retry loop (pyskoob/http/httpx.py)*)
(*   - _AuthServiceMixin login state (pyskoob/auth.py)                     *)
(*   - the services that need a login (pyskoob/users.py, profile.py)       *)
(*   - the life cycle of clients and services (client.py, internal/base.py)*)
(*   - the paginated endpoints and their parsers (books.py, users.py, ...) *)
(*   - the lookups by id and the cleaning of book JSON (books.py, users.py)*)
(*   - run_sync (pyskoob/utils/sync_async.py)                              *)
(*   - the pagination loop of examples/pagination_search.py                *)
(*   - two SkoobClient facades and their limiters (pyskoob/client.py)      *)
(* Time is a discrete monotonic clock; one clock unit stands for one unit  *)
(* of the limiter's period.                                                *)
(***************************************************************************)
EXTENDS Integers, Sequences, FiniteSets, TLC

(***************************************************************************)
(* Bounds of the model.                                                    *)
(***************************************************************************)
\* number of threads / event-loop tasks that may call the limiter
NumCallers == 3
\* largest max_calls a limiter is constructed with
MaxN == 2
\* largest period a limiter is constructed with
MaxPeriod == 2
\* the clock advances freely up to this horizon (and beyond it only while a
\* sleeper still waits for its wake-up time)
MaxTime == MaxPeriod
\* total number of acquire()/acquire_async() calls in one behaviour
MaxAcquires == NumCallers

\* largest max_retries an ExponentialBackoff is constructed with, and the
\* largest attempt index _compute_delay is called with
MaxRetries == 4
\* largest base_delay, factor and max_delay an ExponentialBackoff is constructed with
MaxBase == 1
MaxFactor == 2
MaxDelayCap == 2
\* the largest finite float of the model (sys.float_info.max, scaled down):
\* delays are floats, modelled as the naturals up to FloatMax and Inf
FloatMax == 4
Inf == FloatMax + 1

\* number of login() / login_with_cookies() calls on one auth service
MaxAuthCalls == 2

\* most list items on one fetched page
MaxItems == 2
\* largest page number asked for
MaxPage == 2
\* largest total a result counter shows
MaxTotal == 61
\* largest limit argument of the endpoints that take one
MaxLimit == 2
\* number of requests sent through the services of the two clients together
MaxFacadeRequests == 3

Callers == 1..NumCallers
Paths == {"sync", "async"}

VARIABLES
    \* ---- RateLimiter ----
    max_calls,   \* self._max_calls
    period,      \* self._period
    calls,       \* self._calls: the deque of recorded timestamps, oldest first
    lock,        \* lock.sync: self._lock, lock.async: self._async_lock; 0 = free, else the holder
    clock,       \* time.monotonic()
    allowed,     \* the entry points the callers of this limiter use: acquire, acquire_async or both
    pc,          \* per caller: "idle" | "waiting" (blocked on the lock) | "sleeping"
    path,        \* per caller in a call: "sync" (acquire) or "async" (acquire_async); "none" when idle
    wake,        \* per sleeping caller: the earliest clock value at which its sleep ends
    grants,      \* history: the timestamps appended to calls, in order, with the caller
    \* ---- ExponentialBackoff ----
    max_retries, \* self.max_retries
    base_delay,  \* self.base_delay
    factor,      \* self.factor
    max_delay,   \* self.max_delay
    bk_attempt,  \* the argument of the last _compute_delay call (-1: none yet)
    bk_result,   \* what that call did: a delay returned or an exception raised
    \* ---- HttpxSyncClient / HttpxAsyncClient ----
    h_kind,       \* "sync": HttpxSyncClient, "async": HttpxAsyncClient
    arg_limiter,  \* the rate_limiter argument of the constructor: "none" or "given"
    arg_retry,    \* the retry keyword of the constructor: 0 (absent) or a Retry's max_attempts
    rate_limiter, \* self._rate_limiter: "unset", "default" (made by the client) or "given"
    hpc,          \* "new" | "ctor_raised" | "ready" | "acquire" | "send" | "sleep" | "returned" | "raised"
    method,       \* "get" or "post" ("none" before the request)
    attempt,      \* the loop index of get / post
    log,          \* history: the acquisitions, sends and backoff sleeps of the request, in order
    result,       \* "none", "response", or the exception that left get / post
    \* ---- AuthService / AsyncAuthService ----
    is_logged_in, \* self._is_logged_in
    cookies,      \* the PHPSESSID entry of client.cookies ("none": absent)
    auth_calls,   \* number of calls made on the service
    last,         \* the last call: operation, responses, requests sent, result, and is_logged_in before it
    \* ---- UserService, SkoobProfileService and their async variants ----
    facade,       \* "sync": the services of a SkoobClient, "async": those of a SkoobAsyncClient
    svc,          \* the last service call: operation, arguments, response, requests sent and result
    \* ---- SkoobClient / SkoobAsyncClient and BaseSkoobService as context managers ----
    cl,           \* one client facade: its http client, its position in a with block, the last call on it
    bs,           \* one BaseSkoobService: its client argument, _owns_client, the clients it closed
    \* ---- the paginated endpoints ----
    pg,           \* the last paginated call: endpoint, arguments, the page fetched, and its outcome
    \* ---- UserService.get_by_id / BookService.get_by_id ----
    lk,           \* the last lookup: the JSON body the server sent, and the outcome
    \* ---- the pagination loop of examples/pagination_search.py ----
    lp,           \* the loop: the counter the server shows, the page number, the fetches made
    \* ---- two SkoobClient objects and their services ----
    fc            \* per client: its limiter, its login state, its request in progress; per limiter: its queue

limiterVars == <<max_calls, period, calls, lock, clock, allowed, pc, path, wake, grants>>

backoffVars == <<max_retries, base_delay, factor, max_delay>>

delayVars == <<bk_attempt, bk_result>>

httpVars == <<h_kind, arg_limiter, arg_retry, rate_limiter, hpc, method, attempt, log, result>>

authVars == <<is_logged_in, cookies, auth_calls, last>>

serviceVars == <<facade, svc>>

lifeVars == <<cl, bs>>

vars == <<limiterVars, backoffVars, delayVars, httpVars, authVars, serviceVars, lifeVars, pg, lk, lp, fc>>

\* what the operations of one component leave alone
outsideLimiter == <<backoffVars, delayVars, httpVars, authVars, serviceVars, lifeVars, pg, lk, lp, fc>>
outsideBackoff == <<limiterVars, httpVars, authVars, serviceVars, lifeVars, pg, lk, lp, fc>>
outsideHttp == <<limiterVars, backoffVars, delayVars, authVars, serviceVars, lifeVars, pg, lk, lp, fc>>
outsideAuth == <<limiterVars, backoffVars, delayVars, httpVars, serviceVars, lifeVars, pg, lk, lp, fc>>
outsideService == <<limiterVars, backoffVars, delayVars, httpVars, authVars, lifeVars, pg, lk, lp, fc>>
outsideLife == <<limiterVars, backoffVars, delayVars, httpVars, authVars, svc, pg, lk, lp, fc>>
outsidePage == <<limiterVars, backoffVars, delayVars, httpVars, authVars, serviceVars, lifeVars, lk, lp, fc>>
outsideLookup == <<limiterVars, backoffVars, delayVars, httpVars, authVars, serviceVars, lifeVars, pg, lp, fc>>
outsideLoop == <<limiterVars, backoffVars, delayVars, httpVars, authVars, serviceVars, lifeVars, pg, lk, fc>>
outsideFacade == <<limiterVars, backoffVars, delayVars, httpVars, authVars, serviceVars, lifeVars, pg, lk, lp>>

(***************************************************************************)
(* RateLimiter                                                             *)
(***************************************************************************)
RECURSIVE TrimEarly(_, _)
\* mutant of Trim: the window test is off by one
TrimEarly(cs, now) ==
    IF cs # <<>> /\ now - Head(cs) >= period - 1
    THEN TrimEarly(Tail(cs), now)
    ELSE cs

RECURSIVE Trim(_, _)
\* _trim(now): pop from the left while now - calls[0] >= period
Trim(cs, now) ==
    IF cs # <<>> /\ now - Head(cs) >= period
    THEN Trim(Tail(cs), now)
    ELSE cs

\* sleep_for = self._period - (now - self._calls[0])
SleepFor(cs, now) == period - (now - cs[1])

\* the `with self._lock:` / `async with self._async_lock:` exit
Released(c) == [lock EXCEPT ![path[c]] = 0]

\* self._calls.append(now), with the history of grants; the caller returns
Record(c, cs, now) ==
    /\ calls' = Append(cs, now)
    /\ grants' = Append(grants, [t |-> now, by |-> c, via |-> path[c]])
    /\ pc' = [pc EXCEPT ![c] = "idle"]
    /\ path' = [path EXCEPT ![c] = "none"]

InProgress == {c \in Callers : pc[c] # "idle"}

LimiterInit ==
    /\ max_calls \in 1..MaxN
    /\ period \in 1..MaxPeriod
    /\ calls = <<>>
    /\ lock = [p \in Paths |-> 0]
    /\ clock = 0
    /\ allowed \in {{"sync"}, {"async"}, Paths}
    /\ pc = [c \in Callers |-> "idle"]
    /\ path = [c \in Callers |-> "none"]
    /\ wake = [c \in Callers |-> 0]
    /\ grants = <<>>

\* a caller invokes acquire() (p = "sync") or acquire_async() (p = "async")
\* and reaches the lock
Call(c, p) ==
    /\ pc[c] = "idle"
    /\ p \in allowed
    /\ Len(grants) + Cardinality(InProgress) < MaxAcquires
    /\ pc' = [pc EXCEPT ![c] = "waiting"]
    /\ path' = [path EXCEPT ![c] = p]
    /\ UNCHANGED <<max_calls, period, calls, lock, clock, allowed, wake, grants>>
    /\ UNCHANGED outsideLimiter

\* mutant of Enter: the lock is not kept while the caller sleeps
EnterUnlocked(c) ==
    /\ pc[c] = "waiting"
    /\ lock[path[c]] = 0
    /\ LET now == clock
           cs  == Trim(calls, now)
       IN  IF Len(cs) >= max_calls
           THEN /\ calls' = cs
                /\ wake' = [wake EXCEPT ![c] = now + SleepFor(cs, now)]
                /\ pc' = [pc EXCEPT ![c] = "sleeping"]
                /\ UNCHANGED <<grants, lock, path>>
           ELSE /\ Record(c, cs, now)
                /\ UNCHANGED <<lock, wake>>
    /\ UNCHANGED <<max_calls, period, clock, allowed>>
    /\ UNCHANGED outsideLimiter

\* the caller gets the lock, reads the clock, trims, and either records the
\* call and leaves, or starts to sleep with the lock still held
Enter(c) ==
    /\ pc[c] = "waiting"
    /\ lock[path[c]] = 0
    /\ LET now == clock
           cs  == Trim(calls, now)
       IN  IF Len(cs) >= max_calls
           THEN /\ calls' = cs
                /\ wake' = [wake EXCEPT ![c] = now + SleepFor(cs, now)]
                /\ lock' = [lock EXCEPT ![path[c]] = c]
                /\ pc' = [pc EXCEPT ![c] = "sleeping"]
                /\ UNCHANGED <<grants, path>>
           ELSE /\ Record(c, cs, now)
                /\ UNCHANGED <<lock, wake>>
    /\ UNCHANGED <<max_calls, period, clock, allowed>>
    /\ UNCHANGED outsideLimiter

\* mutant of Wake: the lock is never released after the sleep
WakeKeepLock(c) ==
    /\ pc[c] = "sleeping"
    /\ clock >= wake[c]
    /\ LET now == clock
       IN  Record(c, Trim(calls, now), now)
    /\ wake' = [wake EXCEPT ![c] = 0]
    /\ UNCHANGED <<max_calls, period, clock, allowed, lock>>
    /\ UNCHANGED outsideLimiter

\* the sleep ends (never before the requested duration has passed); the
\* caller reads the clock again, trims, records the call and releases the lock
Wake(c) ==
    /\ pc[c] = "sleeping"
    /\ clock >= wake[c]
    /\ LET now == clock
       IN  Record(c, Trim(calls, now), now)
    /\ lock' = Released(c)
    /\ wake' = [wake EXCEPT ![c] = 0]
    /\ UNCHANGED <<max_calls, period, clock, allowed>>
    /\ UNCHANGED outsideLimiter

\* time passes
Tick ==
    /\ \/ clock < MaxTime
       \/ \E c \in Callers : pc[c] = "sleeping" /\ clock < wake[c]
    /\ clock' = clock + 1
    /\ UNCHANGED <<max_calls, period, calls, lock, allowed, pc, path, wake, grants>>
    /\ UNCHANGED outsideLimiter

LimiterNext ==
    \/ Tick
    \/ \E c \in Callers, p \in Paths : Call(c, p)
    \/ \E c \in Callers : Enter(c) \/ Wake(c)

(***************************************************************************)
(* ExponentialBackoff                                                      *)
(***************************************************************************)
RECURSIVE Pow(_, _)
\* the exact value of f ** a
Pow(f, a) == IF a = 0 THEN 1 ELSE f * Pow(f, a - 1)

\* float * float: a product beyond the largest float is inf
FloatMul(x, y) == IF x * y > FloatMax THEN Inf ELSE x * y

\* min(delay, self.max_delay)
FloatMin(x, y) == IF x <= y THEN x ELSE y

Returned(v) == [raised |-> "none", val |-> v]
Raised(e) == [raised |-> e, val |-> 0]

\* _compute_delay(attempt), a being the attempt: float ** int raises
\* OverflowError when the power is beyond the largest float
ComputeDelay(a) ==
    IF Pow(factor, a) > FloatMax
    THEN Raised("OverflowError")
    ELSE Returned(FloatMin(FloatMul(base_delay, Pow(factor, a)), max_delay))

\* ExponentialBackoff(max_retries, base_delay, factor, max_delay)
BackoffInit ==
    /\ max_retries \in 0..MaxRetries
    /\ base_delay \in 0..MaxBase
    /\ factor \in 1..MaxFactor
    /\ max_delay \in 0..MaxDelayCap

DelayInit ==
    /\ bk_attempt = -1
    /\ bk_result = Returned(0)

\* a call of _compute_delay(a), as sleep(a) and sleep_async(a) make
ComputeDelayCall(a) ==
    /\ bk_attempt' = a
    /\ bk_result' = ComputeDelay(a)
    /\ UNCHANGED backoffVars
    /\ UNCHANGED outsideBackoff

(***************************************************************************)
(* HttpxSyncClient and HttpxAsyncClient                                    *)
(***************************************************************************)
\* Retry.__init__'s default max_attempts
DefaultMaxAttempts == 3

\* what the underlying httpx request does: a response, an httpx.HTTPError
\* (transport failure), or any other exception
Outcomes == {"ok", "transport", "other"}

HttpInit ==
    /\ h_kind \in {"sync", "async"}
    /\ arg_limiter \in {"none", "given"}
    /\ arg_retry \in {0, DefaultMaxAttempts}
    /\ rate_limiter = "unset"
    /\ hpc = "new"
    /\ method = "none"
    /\ attempt = 0
    /\ log = <<>>
    /\ result = "none"

\* __init__ without a retry keyword: httpx.Client(**kwargs) is built and the
\* limiter is `rate_limiter or RateLimiter()`
Construct ==
    /\ hpc = "new"
    /\ arg_retry = 0
    /\ rate_limiter' = IF arg_limiter = "given" THEN "given" ELSE "default"
    /\ hpc' = "ready"
    /\ UNCHANGED <<h_kind, arg_limiter, arg_retry, method, attempt, log, result>>
    /\ UNCHANGED outsideHttp

\* __init__ with retry=Retry(...): the keyword is not a parameter of __init__,
\* goes to httpx.Client(**kwargs), which accepts no such keyword: TypeError
ConstructWithRetry ==
    /\ hpc = "new"
    /\ arg_retry # 0
    /\ hpc' = "ctor_raised"
    /\ result' = "TypeError"
    /\ UNCHANGED <<h_kind, arg_limiter, arg_retry, rate_limiter, method, attempt, log>>
    /\ UNCHANGED outsideHttp

\* get(url) / post(url, data): the hasattr checks find both attributes set;
\* the loop starts at attempt 0 (range(max_retries + 1) is never empty)
Request(m) ==
    /\ hpc = "ready"
    /\ method' = m
    /\ attempt' = 0
    /\ hpc' = "acquire"
    /\ UNCHANGED <<h_kind, arg_limiter, arg_retry, rate_limiter, log, result>>
    /\ UNCHANGED outsideHttp

\* self._rate_limiter.acquire() / await self._rate_limiter.acquire_async()
Acquire ==
    /\ hpc = "acquire"
    /\ log' = Append(log, [e |-> "acq", on |-> rate_limiter, r |-> "none", d |-> 0])
    /\ hpc' = "send"
    /\ UNCHANGED <<h_kind, arg_limiter, arg_retry, rate_limiter, method, attempt, result>>
    /\ UNCHANGED outsideHttp

\* mutant of Send: every exception is caught, not only httpx.HTTPError
SendCatchAll(o) ==
    /\ hpc = "send"
    /\ log' = Append(log, [e |-> "send", on |-> "none", r |-> o, d |-> 0])
    /\ IF o = "ok"
       THEN hpc' = "returned" /\ result' = "response"
       ELSE IF attempt >= max_retries
            THEN hpc' = "raised" /\ result' = (IF o = "other" THEN "OtherError" ELSE "HTTPError")
            ELSE hpc' = "sleep" /\ UNCHANGED result
    /\ UNCHANGED <<h_kind, arg_limiter, arg_retry, rate_limiter, method, attempt>>
    /\ UNCHANGED outsideHttp

\* return self._client.get(...) with its except clause: a response is
\* returned; an httpx.HTTPError is re-raised on the last attempt and leads to
\* the backoff sleep otherwise; any other exception propagates
Send(o) ==
    /\ hpc = "send"
    /\ log' = Append(log, [e |-> "send", on |-> "none", r |-> o, d |-> 0])
    /\ CASE o = "ok" -> hpc' = "returned" /\ result' = "response"
         [] o = "other" -> hpc' = "raised" /\ result' = "OtherError"
         [] o = "transport" ->
                IF attempt >= max_retries
                THEN hpc' = "raised" /\ result' = "HTTPError"
                ELSE hpc' = "sleep" /\ UNCHANGED result
    /\ UNCHANGED <<h_kind, arg_limiter, arg_retry, rate_limiter, method, attempt>>
    /\ UNCHANGED outsideHttp

\* mutant of BackoffSleep: the retry goes straight to the send
BackoffSleepNoAcquire ==
    /\ hpc = "sleep"
    /\ LET r == ComputeDelay(attempt)
       IN  IF r.raised # "none"
           THEN hpc' = "raised" /\ result' = r.raised /\ UNCHANGED <<log, attempt>>
           ELSE /\ log' = Append(log, [e |-> "sleep", on |-> "none", r |-> "none", d |-> r.val])
                /\ attempt' = attempt + 1
                /\ hpc' = "send"
                /\ UNCHANGED result
    /\ UNCHANGED <<h_kind, arg_limiter, arg_retry, rate_limiter, method>>
    /\ UNCHANGED outsideHttp

\* self._backoff.sleep(attempt) / await self._backoff.sleep_async(attempt),
\* then the next iteration of the loop; an exception of _compute_delay leaves
\* get / post
BackoffSleep ==
    /\ hpc = "sleep"
    /\ LET r == ComputeDelay(attempt)
       IN  IF r.raised # "none"
           THEN hpc' = "raised" /\ result' = r.raised /\ UNCHANGED <<log, attempt>>
           ELSE /\ log' = Append(log, [e |-> "sleep", on |-> "none", r |-> "none", d |-> r.val])
                /\ attempt' = attempt + 1
                /\ hpc' = "acquire"
                /\ UNCHANGED result
    /\ UNCHANGED <<h_kind, arg_limiter, arg_retry, rate_limiter, method>>
    /\ UNCHANGED outsideHttp

HttpNext ==
    \/ Construct
    \/ ConstructWithRetry
    \/ \E m \in {"get", "post"} : Request(m)
    \/ Acquire
    \/ \E o \in Outcomes : Send(o)
    \/ BackoffSleep

(***************************************************************************)
(* run_sync, the bridge from the synchronous services to their coroutines  *)
(***************************************************************************)
\* mutant of RunSync: the coroutine is run whether a loop is running or not
RunSyncAnyway(in_loop, outcome) == outcome

\* run_sync(coroutine): RuntimeError, the coroutine not run, when an event
\* loop is running in the calling thread; else the outcome of the coroutine
RunSync(in_loop, outcome) ==
    IF in_loop THEN [reqs |-> 0, result |-> "RuntimeError"] ELSE outcome

(***************************************************************************)
(* AuthService and AsyncAuthService                                        *)
(***************************************************************************)
\* what the login POST can come to: client.post raises, raise_for_status
\* raises, the body is no JSON, or a JSON object with success missing, false
\* or true
PostOutcomes ==
    {"transport_error", "status_error", "bad_json", "no_success", "success_false", "success_true"}

\* what the user-info GET can come to: client.get raises, raise_for_status
\* raises, the body is no JSON, success is false or missing, the record lacks
\* a field, or a valid user
InfoOutcomes ==
    {"transport_error", "status_error", "bad_json", "success_false", "malformed", "ok"}

Tokens == {"t1", "t2"}

\* _get_my_info(): the User returned or the exception raised
GetMyInfo(info) ==
    CASE info = "transport_error" -> "HTTPError"
      [] info = "status_error" -> "HTTPStatusError"
      [] info = "bad_json" -> "ValueError"
      [] info = "success_false" -> "ConnectionError"
      [] info = "malformed" -> "KeyError"
      [] info = "ok" -> "User"

AuthInit ==
    /\ is_logged_in = FALSE
    /\ cookies = "none"
    /\ auth_calls = 0
    /\ last = [op |-> "none", post |-> "none", info |-> "none", token |-> "none",
               reqs |-> <<>>, result |-> "none", before |-> FALSE]

\* mutant of Login: the flag is set before the response is examined
LoginSetsEarly(post, info) ==
    /\ auth_calls < MaxAuthCalls
    /\ info = "none" <=> post # "success_true"
    /\ auth_calls' = auth_calls + 1
    /\ is_logged_in' = TRUE
    /\ last' = [op |-> "login", post |-> post, info |-> info, token |-> "none",
                reqs |-> IF post = "success_true" THEN <<"POST", "GET">> ELSE <<"POST">>,
                result |-> CASE post = "transport_error" -> "HTTPError"
                             [] post = "status_error" -> "HTTPStatusError"
                             [] post \in {"bad_json", "no_success", "success_false"} -> "ConnectionError"
                             [] post = "success_true" -> GetMyInfo(info),
                before |-> is_logged_in]
    /\ UNCHANGED cookies
    /\ UNCHANGED outsideAuth

\* login(email, password): the POST, the checks of its response, then
\* _is_logged_in = True and the user-info GET
Login(post, info) ==
    /\ auth_calls < MaxAuthCalls
    /\ info = "none" <=> post # "success_true"
    /\ auth_calls' = auth_calls + 1
    /\ is_logged_in' = IF post = "success_true" THEN TRUE ELSE is_logged_in
    /\ last' = [op |-> "login", post |-> post, info |-> info, token |-> "none",
                reqs |-> IF post = "success_true" THEN <<"POST", "GET">> ELSE <<"POST">>,
                result |-> CASE post = "transport_error" -> "HTTPError"
                             [] post = "status_error" -> "HTTPStatusError"
                             [] post \in {"bad_json", "no_success", "success_false"} -> "ConnectionError"
                             [] post = "success_true" -> GetMyInfo(info),
                before |-> is_logged_in]
    /\ UNCHANGED cookies
    /\ UNCHANGED outsideAuth

\* mutant of JarAfterCookieLogin: the token is taken out again when the
\* user-info GET fails
JarAfterVerifiedLogin(jar, token, outcome) == IF outcome = "User" THEN token ELSE jar

\* self.client.cookies.update({"PHPSESSID": session_token}) comes first and
\* nothing takes the entry out again, whatever _get_my_info() comes to
JarAfterCookieLogin(jar, token, outcome) == token

\* mutant of LoginWithCookies: the flag is set before the user-info GET
LoginWithCookiesSetsEarly(token, info) ==
    /\ auth_calls < MaxAuthCalls
    /\ auth_calls' = auth_calls + 1
    /\ cookies' = token
    /\ is_logged_in' = TRUE
    /\ last' = [op |-> "login_with_cookies", post |-> "none", info |-> info, token |-> token,
                reqs |-> <<"GET">>, result |-> GetMyInfo(info), before |-> is_logged_in]
    /\ UNCHANGED outsideAuth

\* login_with_cookies(session_token): the cookie is stored, the user-info GET
\* is made, and _is_logged_in = True once it returned a user
LoginWithCookies(token, info) ==
    /\ auth_calls < MaxAuthCalls
    /\ auth_calls' = auth_calls + 1
    /\ cookies' = JarAfterCookieLogin(cookies, token, GetMyInfo(info))
    /\ is_logged_in' = IF GetMyInfo(info) = "User" THEN TRUE ELSE is_logged_in
    /\ last' = [op |-> "login_with_cookies", post |-> "none", info |-> info, token |-> token,
                reqs |-> <<"GET">>, result |-> GetMyInfo(info), before |-> is_logged_in]
    /\ UNCHANGED outsideAuth

\* AuthService.login(email, password) called while an event loop runs in the
\* calling thread: run_sync(self._login(email, password)); left alone, the
\* coroutine would start with the login POST
SyncLoginInLoop ==
    /\ auth_calls < MaxAuthCalls
    /\ auth_calls' = auth_calls + 1
    /\ LET r == RunSync(TRUE, [reqs |-> 1, result |-> "started"])
       IN  last' = [op |-> "login", post |-> "none", info |-> "none", token |-> "none",
                    reqs |-> IF r.reqs = 0 THEN <<>> ELSE <<"POST">>,
                    result |-> r.result, before |-> is_logged_in]
    /\ UNCHANGED <<is_logged_in, cookies>>
    /\ UNCHANGED outsideAuth

AuthNext ==
    \/ SyncLoginInLoop
    \/ \E post \in PostOutcomes, info \in InfoOutcomes \cup {"none"} : Login(post, info)
    \/ \E token \in Tokens, info \in InfoOutcomes : LoginWithCookies(token, info)

(***************************************************************************)
(* Services that need a login: UserService, SkoobProfileService and their  *)
(* async variants                                                          *)
(***************************************************************************)
\* the bounds of the rating accepted by rate_book
RatingMin == 0
RatingMax == 5

\* the rankings rate_book is called with: floats, modelled by the integers
\* from just below the accepted range to just above it
Rankings == (RatingMin - 1)..(RatingMax + 1)

UserOps == {"get_by_id", "get_relations", "get_reviews", "get_read_stats", "get_bookcase", "search"}

LabelOps ==
    {"add_book_label", "remove_book_label", "update_book_status", "remove_book_status", "change_book_shelf"}

\* what the request of a UserService operation can come to: client.get
\* raises, raise_for_status raises, or a body is handed to the parser
UserResponses == {"transport_error", "status_error", "body"}

\* what the request of a profile operation can come to: client.get raises,
\* raise_for_status raises, the body is no JSON, or a JSON object with success
\* false, missing or true
Responses ==
    {"transport_error", "status_error", "bad_json", "success_false", "no_success", "success_true"}

\* in_loop: an event loop runs in the calling thread (it matters to run_sync only)
NoCall ==
    [service |-> "none", op |-> "none", in_loop |-> FALSE, ranking |-> RatingMin,
     resp |-> "none", logged |-> FALSE, reqs |-> 0, result |-> "none"]

\* AuthService.validate_login() / AsyncAuthService.validate_login()
ValidateLogin(logged) == IF logged THEN "passed" ELSE "PermissionError"

\* the request of a UserService operation and what follows it: the transport
\* or the status check raises, or the body goes to the operation's parser
UserRequest(resp) ==
    [reqs |-> 1,
     result |-> CASE resp = "transport_error" -> "HTTPError"
                  [] resp = "status_error" -> "HTTPStatusError"
                  [] OTHER -> "parsed"]

\* mutant of UserCall: the operation does not validate the login
UserCallUnchecked(logged, resp) == UserRequest(resp)

\* a UserService operation: self._validate_login(), then the request
UserCall(logged, resp) ==
    IF ValidateLogin(logged) = "PermissionError"
    THEN [reqs |-> 0, result |-> "PermissionError"]
    ELSE UserRequest(resp)

\* an AsyncUserService operation: self._validate_login() makes a coroutine
\* that is never awaited, so the validation does not run; then the request
AsyncUserCall(logged, resp) == UserRequest(resp)

\* mutant of ProfileCall: rate_book does not check the range of the ranking
ProfileCallNoRange(op, ranking, logged, resp) ==
    IF ValidateLogin(logged) = "PermissionError"
    THEN [reqs |-> 0, result |-> "PermissionError"]
    ELSE [reqs |-> 1,
          result |-> CASE resp = "transport_error" -> "HTTPError"
                       [] resp = "status_error" -> "HTTPStatusError"
                       [] resp = "bad_json" -> "ValueError"
                       [] resp = "success_true" -> "True"
                       [] OTHER -> IF op = "rate_book" THEN "RuntimeError" ELSE "False"]

\* the coroutines of _ProfileServiceMixin: the validation is awaited, then
\* (rate_book) the range check, then the request and the success flag
ProfileCall(op, ranking, logged, resp) ==
    IF ValidateLogin(logged) = "PermissionError"
    THEN [reqs |-> 0, result |-> "PermissionError"]
    ELSE IF op = "rate_book" /\ ~(RatingMin <= ranking /\ ranking <= RatingMax)
    THEN [reqs |-> 0, result |-> "ValueError"]
    ELSE [reqs |-> 1,
          result |-> CASE resp = "transport_error" -> "HTTPError"
                       [] resp = "status_error" -> "HTTPStatusError"
                       [] resp = "bad_json" -> "ValueError"
                       [] resp = "success_true" -> "True"
                       [] OTHER -> IF op = "rate_book" THEN "RuntimeError" ELSE "False"]

ServiceIdle ==
    /\ facade = "sync"
    /\ svc = NoCall

ServiceInit ==
    /\ facade \in {"sync", "async"}
    /\ svc = NoCall

\* SkoobClient.users.<op>(...)
UserServiceOp(op, resp) ==
    /\ facade = "sync"
    /\ svc' = [service |-> "users", op |-> op, in_loop |-> FALSE, ranking |-> RatingMin,
               resp |-> resp, logged |-> is_logged_in,
               reqs |-> UserCall(is_logged_in, resp).reqs,
               result |-> UserCall(is_logged_in, resp).result]
    /\ UNCHANGED facade
    /\ UNCHANGED outsideService

\* await SkoobAsyncClient.users.<op>(...)
AsyncUserServiceOp(op, resp) ==
    /\ facade = "async"
    /\ svc' = [service |-> "users", op |-> op, in_loop |-> TRUE, ranking |-> RatingMin,
               resp |-> resp, logged |-> is_logged_in,
               reqs |-> AsyncUserCall(is_logged_in, resp).reqs,
               result |-> AsyncUserCall(is_logged_in, resp).result]
    /\ UNCHANGED facade
    /\ UNCHANGED outsideService

\* SkoobClient.me.<op>(...): run_sync of the mixin's coroutine
ProfileServiceOp(op, ranking, in_loop, resp) ==
    /\ facade = "sync"
    /\ svc' = [service |-> "me", op |-> op, in_loop |-> in_loop, ranking |-> ranking,
               resp |-> resp, logged |-> is_logged_in,
               reqs |-> RunSync(in_loop, ProfileCall(op, ranking, is_logged_in, resp)).reqs,
               result |-> RunSync(in_loop, ProfileCall(op, ranking, is_logged_in, resp)).result]
    /\ UNCHANGED facade
    /\ UNCHANGED outsideService

\* await SkoobAsyncClient.me.<op>(...): the mixin's coroutine awaited
AsyncProfileServiceOp(op, ranking, resp) ==
    /\ facade = "async"
    /\ svc' = [service |-> "me", op |-> op, in_loop |-> TRUE, ranking |-> ranking,
               resp |-> resp, logged |-> is_logged_in,
               reqs |-> ProfileCall(op, ranking, is_logged_in, resp).reqs,
               result |-> ProfileCall(op, ranking, is_logged_in, resp).result]
    /\ UNCHANGED facade
    /\ UNCHANGED outsideService

ServiceNext ==
    \/ \E op \in UserOps, resp \in UserResponses : UserServiceOp(op, resp)
    \/ \E op \in UserOps, resp \in UserResponses : AsyncUserServiceOp(op, resp)
    \/ \E op \in LabelOps, in_loop \in BOOLEAN, resp \in Responses :
            ProfileServiceOp(op, RatingMin, in_loop, resp)
    \/ \E ranking \in Rankings, in_loop \in BOOLEAN, resp \in Responses :
            ProfileServiceOp("rate_book", ranking, in_loop, resp)
    \/ \E op \in LabelOps, resp \in Responses : AsyncProfileServiceOp(op, RatingMin, resp)
    \/ \E ranking \in Rankings, resp \in Responses : AsyncProfileServiceOp("rate_book", ranking, resp)
    \/ AuthNext

(***************************************************************************)
(* SkoobClient, SkoobAsyncClient and BaseSkoobService as context managers  *)
(***************************************************************************)
\* how the body of a with block ends
BodyOutcomes == {"normal", "raised"}

\* a with statement lets the body's exception go on unless __exit__ /
\* __aexit__ returned a true value
Propagates(body, exit) == body = "raised" /\ exit # "True"

\* SkoobClient(...) / SkoobAsyncClient(http_client, ...): self._client is the
\* http client built by the facade, or (async only) the one handed in
LifeIdle ==
    /\ cl = [arg |-> "none", pc |-> "constructed", body |-> "none", http |-> "open",
             exit |-> "none", propagated |-> FALSE, last |-> "init"]
    /\ bs = [arg |-> "none", pc |-> "new", owns |-> FALSE, client |-> "unset",
             body |-> "none", closed |-> {}, last |-> "none"]

LifeInit ==
    /\ \E a \in {"none", "given"} :
        /\ a = "given" => facade = "async"
        /\ cl = [arg |-> a, pc |-> "constructed", body |-> "none", http |-> "open",
                 exit |-> "none", propagated |-> FALSE, last |-> "init"]
    /\ \E a \in {"none", "given"} :
        bs = [arg |-> a, pc |-> "new", owns |-> FALSE, client |-> "unset",
              body |-> "none", closed |-> {}, last |-> "none"]

\* SkoobClient.__enter__ / SkoobAsyncClient.__aenter__
ClientEnter ==
    /\ cl.pc = "constructed"
    /\ cl' = [cl EXCEPT !.pc = "in_with", !.last = "enter"]
    /\ UNCHANGED <<bs, facade>>
    /\ UNCHANGED outsideLife

\* the body of the with block runs to its end or raises
ClientBody(outcome) ==
    /\ cl.pc = "in_with"
    /\ cl.body = "none"
    /\ cl' = [cl EXCEPT !.body = outcome, !.last = "body"]
    /\ UNCHANGED <<bs, facade>>
    /\ UNCHANGED outsideLife

\* mutant of ClientExit: the exit does not close the http client
ClientExitNoClose ==
    /\ cl.pc = "in_with"
    /\ cl.body # "none"
    /\ cl' = [cl EXCEPT !.pc = "left", !.exit = "False",
                        !.propagated = Propagates(cl.body, "False"), !.last = "exit"]
    /\ UNCHANGED <<bs, facade>>
    /\ UNCHANGED outsideLife

\* SkoobClient.__exit__ / SkoobAsyncClient.__aexit__: close(), return False
ClientExit ==
    /\ cl.pc = "in_with"
    /\ cl.body # "none"
    /\ cl' = [cl EXCEPT !.pc = "left", !.http = "closed", !.exit = "False",
                        !.propagated = Propagates(cl.body, "False"), !.last = "exit"]
    /\ UNCHANGED <<bs, facade>>
    /\ UNCHANGED outsideLife

\* SkoobClient.close() / SkoobAsyncClient.close(), called by the user before,
\* inside or after a with block
ClientClose ==
    /\ cl' = [cl EXCEPT !.http = "closed", !.last = "close"]
    /\ UNCHANGED <<bs, facade>>
    /\ UNCHANGED outsideLife

\* BaseSkoobService(client): a client object is true (the SyncHTTPClient
\* protocol defines neither __bool__ nor __len__), so `client or
\* HttpxSyncClient()` is the client handed in unless that is None
ServiceConstruct ==
    /\ bs.pc = "new"
    /\ bs' = [bs EXCEPT !.pc = "constructed",
                        !.client = IF bs.arg = "none" THEN "own" ELSE "given",
                        !.owns = (bs.arg = "none"),
                        !.last = "init"]
    /\ UNCHANGED <<cl, facade>>
    /\ UNCHANGED outsideLife

\* mutant of CloseOwned: close() closes whatever client the service has
CloseAlways(b) == b.closed \cup {b.client}

\* BaseSkoobService.close(): the clients closed by the service so far
CloseOwned(b) == IF b.owns THEN b.closed \cup {b.client} ELSE b.closed

\* BaseSkoobService.__enter__
ServiceEnter ==
    /\ bs.pc = "constructed"
    /\ bs' = [bs EXCEPT !.pc = "in_with", !.last = "enter"]
    /\ UNCHANGED <<cl, facade>>
    /\ UNCHANGED outsideLife

ServiceBody(outcome) ==
    /\ bs.pc = "in_with"
    /\ bs.body = "none"
    /\ bs' = [bs EXCEPT !.body = outcome, !.last = "body"]
    /\ UNCHANGED <<cl, facade>>
    /\ UNCHANGED outsideLife

\* BaseSkoobService.__exit__: self.close()
ServiceExit ==
    /\ bs.pc = "in_with"
    /\ bs.body # "none"
    /\ bs' = [bs EXCEPT !.pc = "left", !.closed = CloseOwned(bs), !.last = "exit"]
    /\ UNCHANGED <<cl, facade>>
    /\ UNCHANGED outsideLife

\* BaseSkoobService.close(), called by the user
ServiceClose ==
    /\ bs.pc # "new"
    /\ bs' = [bs EXCEPT !.closed = CloseOwned(bs), !.last = "close"]
    /\ UNCHANGED <<cl, facade>>
    /\ UNCHANGED outsideLife

LifeNext ==
    \/ ClientEnter
    \/ \E outcome \in BodyOutcomes : ClientBody(outcome)
    \/ ClientExit
    \/ ClientClose
    \/ ServiceConstruct
    \/ ServiceEnter
    \/ \E outcome \in BodyOutcomes : ServiceBody(outcome)
    \/ ServiceExit
    \/ ServiceClose

(***************************************************************************)
(* The paginated endpoints. The page is what the server sent: its list     *)
(* items (each well-formed or malformed in one way), its next-page marker  *)
(* and its result counter. The calls are made on a logged-in session.      *)
(***************************************************************************)
\* the limits the endpoints put into their Pagination
SearchLimit == 30
ReviewsLimit == 50
ListLimit == 100

Endpoints ==
    {"books.search", "books.get_reviews", "books.get_users_by_status",
     "authors.search", "authors.get_books",
     "publishers.get_authors", "publishers.get_books",
     "users.get_relations", "users.get_reviews", "users.get_bookcase", "users.search"}

\* The list items a page of the endpoint can hold:
\*   ok        everything the parser reads is there
\*   no_link   the block has no link (no <a>, or no href)
\*   bad_url   the link's href lacks the numeric id the parser extracts
\*   no_title  the link has neither a title attribute nor a text
\*   no_ids    (JSON) the record lacks the edition's ids
Kinds(e) ==
    CASE e \in {"books.search", "authors.search", "authors.get_books",
                "publishers.get_books", "users.search"} ->
            {"ok", "no_link", "bad_url", "no_title"}
      [] e = "users.get_bookcase" -> {"ok", "no_ids"}
      [] OTHER -> {"ok", "no_link", "bad_url"}

\* what the endpoint's item parser does with one item: "keep" it, "drop" it,
\* or the exception that leaves the endpoint
ParseItem(e, k) ==
    CASE k = "ok" -> "keep"
      [] e = "books.search" -> IF k = "no_title" THEN "ParsingError" ELSE "drop"
      [] e = "books.get_reviews" -> IF k = "bad_url" THEN "ParsingError" ELSE "drop"
      [] e = "books.get_users_by_status" -> IF k = "bad_url" THEN "ParsingError" ELSE "drop"
      [] e = "authors.search" -> "drop"
      [] e = "authors.get_books" -> IF k = "no_title" THEN "keep" ELSE "drop"
      [] e = "publishers.get_authors" -> IF k = "no_link" THEN "ParsingError" ELSE "keep"
      [] e = "publishers.get_books" -> IF k = "bad_url" THEN "keep" ELSE "ParsingError"
      [] e = "users.get_relations" -> IF k = "bad_url" THEN "ParsingError" ELSE "drop"
      [] e = "users.get_reviews" -> "TypeError"
      [] e = "users.get_bookcase" -> "ValidationError"
      [] e = "users.search" -> IF k = "no_title" THEN "keep" ELSE "drop"

\* the positions of the items the parser keeps, in page order
KeptPositions(e, items) ==
    LET F[i \in 0..Len(items)] ==
            IF i = 0 THEN <<>>
            ELSE IF ParseItem(e, items[i]) = "keep" THEN Append(F[i - 1], i) ELSE F[i - 1]
    IN F[Len(items)]

\* the exception of the first item that raises, "none" if no item does
FirstError(e, items) ==
    LET bad == {i \in 1..Len(items) : ParseItem(e, items[i]) \notin {"keep", "drop"}}
    IN IF bad = {} THEN "none"
       ELSE ParseItem(e, items[CHOOSE i \in bad : \A j \in bad : i <= j])

\* The next-page marker elements a page can carry:
\*   a.proximo       <a class="proximo">
\*   div.proximo     <div class="proximo">
\*   a:Proxima       <a> Próxima</a>, a link whose text is " Próxima"
\*   a[string]       <a string=" Próxima">, a link with an attribute "string"
\*   paging.next     a true "next_page" in the "paging" object of the JSON body
\* and the element each endpoint looks for
Query(e) ==
    CASE e \in {"books.get_reviews", "books.get_users_by_status", "users.search"} -> "a.proximo"
      [] e \in {"authors.search", "authors.get_books", "publishers.get_authors",
                "publishers.get_books", "users.get_relations"} -> "div.proximo"
      [] e = "users.get_reviews" -> "a[string]"
      [] e = "users.get_bookcase" -> "paging.next"
      [] e = "books.search" -> "nothing"

\* the markers the pages of the endpoint can carry ("none": no marker)
Markers(e) ==
    CASE e = "users.get_reviews" -> {"none", "a:Proxima", "a[string]"}
      [] e = "books.search" -> {"none"}
      [] OTHER -> {"none", Query(e)}

\* the result counter of a page: no counter element, a counter whose text
\* holds neither a number nor the word "encontrados", or "<n> encontrados"
Counters ==
    {[kind |-> "absent", n |-> 0], [kind |-> "other", n |-> 0]}
        \cup {[kind |-> "count", n |-> n] : n \in 0..MaxTotal}

NoCounter == [kind |-> "absent", n |-> 0]

\* _extract_total_results and its like: the number of the counter, else 0
ExtractTotal(counter) == IF counter.kind = "count" THEN counter.n ELSE 0

\* the total of the returned Pagination
Total(e, counter, results) ==
    CASE e \in {"books.search", "authors.search", "users.search"} -> ExtractTotal(counter)
      [] e = "authors.get_books" ->
            IF counter.kind = "count" THEN counter.n ELSE Len(results)
      [] OTHER -> Len(results)

\* the limit of the returned Pagination
Limit(e, limit, results) ==
    CASE e = "books.search" -> SearchLimit
      [] e \in {"books.get_reviews", "users.get_reviews"} -> ReviewsLimit
      [] e \in {"users.get_relations", "users.get_bookcase"} -> ListLimit
      [] e \in {"books.get_users_by_status", "users.search"} -> limit
      [] OTHER -> Len(results)

\* mutant of SearchHasNext: the last full page claims a next page
SearchHasNextInclusive(page, total) == page * SearchLimit <= total

\* BookService.search: next_page_link = True if page * limit < total_results else False
SearchHasNext(page, total) == page * SearchLimit < total

\* has_next_page of the returned Pagination
HasNext(e, page, marker, counter) ==
    IF e = "books.search"
    THEN SearchHasNext(page, ExtractTotal(counter))
    ELSE marker = Query(e)

Pages == 1..MaxPage

Limits == 1..MaxLimit

ItemLists(e) == UNION {[1..n -> Kinds(e)] : n \in 0..MaxItems}

\* the call that is made: the endpoint, its arguments, and the page the
\* server answers with
PendingCall(e, page, limit, items, marker, counter) ==
    [endpoint |-> e, page |-> page, arg_limit |-> limit,
     items |-> items, marker |-> marker, counter |-> counter,
     status |-> "pending", error |-> "none", results |-> <<>>,
     limit |-> 0, total |-> 0, has_next_page |-> FALSE]

\* the endpoint handles its page: an item that raises ends the call, else the
\* Pagination is built
Paginate(call) ==
    LET e == call.endpoint
        err == FirstError(e, call.items)
        results == KeptPositions(e, call.items)
    IN IF err # "none"
       THEN [call EXCEPT !.status = "raised", !.error = err]
       ELSE [call EXCEPT !.status = "returned",
                         !.results = results,
                         !.limit = Limit(e, call.arg_limit, results),
                         !.total = Total(e, call.counter, results),
                         !.has_next_page = HasNext(e, call.page, call.marker, call.counter)]

\* no paginated call is made
PageInit == pg = PendingCall("none", 1, 1, <<>>, "none", NoCounter)

\* the endpoints that read a result counter, and those that take a limit
Counted == {"books.search", "authors.search", "authors.get_books", "users.search"}

TakesLimit == {"books.get_users_by_status", "users.search"}

\* any call of any endpoint, answered by any page of that endpoint
PageCalls ==
    \E e \in Endpoints :
        \E page \in Pages, items \in ItemLists(e), marker \in Markers(e),
           limit \in (IF e \in TakesLimit THEN Limits ELSE {1}),
           counter \in (IF e \in Counted THEN Counters ELSE {NoCounter}) :
            pg = PendingCall(e, page, limit, items, marker, counter)

Pending(e) == pg.endpoint = e /\ pg.status = "pending"

BookSearch ==
    /\ Pending("books.search")
    /\ pg' = Paginate(pg)
    /\ UNCHANGED outsidePage

BookGetReviews ==
    /\ Pending("books.get_reviews")
    /\ pg' = Paginate(pg)
    /\ UNCHANGED outsidePage

BookGetUsersByStatus ==
    /\ Pending("books.get_users_by_status")
    /\ pg' = Paginate(pg)
    /\ UNCHANGED outsidePage

AuthorSearch ==
    /\ Pending("authors.search")
    /\ pg' = Paginate(pg)
    /\ UNCHANGED outsidePage

AuthorGetBooks ==
    /\ Pending("authors.get_books")
    /\ pg' = Paginate(pg)
    /\ UNCHANGED outsidePage

PublisherGetAuthors ==
    /\ Pending("publishers.get_authors")
    /\ pg' = Paginate(pg)
    /\ UNCHANGED outsidePage

PublisherGetBooks ==
    /\ Pending("publishers.get_books")
    /\ pg' = Paginate(pg)
    /\ UNCHANGED outsidePage

UserGetRelations ==
    /\ Pending("users.get_relations")
    /\ pg' = Paginate(pg)
    /\ UNCHANGED outsidePage

UserGetReviews ==
    /\ Pending("users.get_reviews")
    /\ pg' = Paginate(pg)
    /\ UNCHANGED outsidePage

UserGetBookcase ==
    /\ Pending("users.get_bookcase")
    /\ pg' = Paginate(pg)
    /\ UNCHANGED outsidePage

UserSearch ==
    /\ Pending("users.search")
    /\ pg' = Paginate(pg)
    /\ UNCHANGED outsidePage

PageNext ==
    \/ BookSearch
    \/ BookGetReviews
    \/ BookGetUsersByStatus
    \/ AuthorSearch
    \/ AuthorGetBooks
    \/ PublisherGetAuthors
    \/ PublisherGetBooks
    \/ UserGetRelations
    \/ UserGetReviews
    \/ UserGetBookcase
    \/ UserSearch

(***************************************************************************)
(* The lookups by id: UserService.get_by_id and BookService.get_by_id,     *)
(* from the JSON body of the response on. The user lookup is made on a     *)
(* logged-in session; the request itself succeeded.                        *)
(***************************************************************************)
\* a JSON value as the cleaning sees it: its type and what str() makes of it
Missing == [t |-> "missing", s |-> ""]
Null == [t |-> "null", s |-> "None"]
StrVal(x) == [t |-> "str", s |-> x]
IntVal(x) == [t |-> "int", s |-> x]

\* the isbn values of a raw book record
IsbnValues ==
    {Missing, Null, IntVal("0"), IntVal("7")}
        \cup {StrVal(x) : x \in {"0", "00", "", "9788535902778", "85-359-0277-5"}}

\* dict.get(key, default) and str(value)
Get(v, default) == IF v.t = "missing" THEN default ELSE v
Str(v) == v.s

\* mutant of CleanIsbn: every isbn starting with a zero is dropped
CleanIsbnLoose(isbn) ==
    IF Str(Get(isbn, StrVal("0"))) \in {"0", "00"} THEN Null ELSE isbn

\* json_data["isbn"] = None if str(json_data.get("isbn", "0")) == "0" else json_data["isbn"]
CleanIsbn(isbn) ==
    IF Str(Get(isbn, StrVal("0"))) = "0" THEN Null ELSE isbn

\* the JSON bodies of a lookup: the success field, the response field
\* (missing, null, an empty object or a record), and of a record: its url,
\* its autor, its isbn, and whether the remaining fields validate
Successes == {"missing", "false", "true"}
ResponseShapes == {"missing", "null", "empty", "record"}
Presence == {"present", "missing"}
Autors == {"str", "null", "missing"}

Body(kind, success, response, url, autor, isbn, valid) ==
    [kind |-> kind, success |-> success, response |-> response, url |-> url,
     autor |-> autor, isbn |-> isbn, valid |-> valid,
     status |-> "pending", result |-> "none", cleaned |-> FALSE, isbn_after |-> isbn]

LookupIdle == lk = Body("none", "missing", "missing", "present", "str", Missing, TRUE)

\* any lookup, answered by any JSON body
LookupInit ==
    \/ \E success \in Successes, response \in ResponseShapes \ {"record"} :
            \E kind \in {"user", "book"} :
                lk = Body(kind, success, response, "present", "str", Missing, TRUE)
    \/ \E success \in Successes, url \in Presence, valid \in BOOLEAN :
            lk = Body("user", success, "record", url, "str", Missing, valid)
    \/ \E success \in Successes, url \in Presence, autor \in Autors,
          isbn \in IsbnValues, valid \in BOOLEAN :
            lk = Body("book", success, "record", url, autor, isbn, valid)

\* _clean_book_json_data(json_data), up to the fields that can stop it: the
\* url is read first (KeyError when missing), then the isbn is set, then the
\* autor is lowered (AttributeError on null)
CleanBookJsonData(b) ==
    IF b.url = "missing"
    THEN [b EXCEPT !.result = "KeyError"]
    ELSE IF b.autor = "null"
         THEN [b EXCEPT !.cleaned = TRUE, !.isbn_after = CleanIsbn(b.isbn), !.result = "AttributeError"]
         ELSE [b EXCEPT !.cleaned = TRUE, !.isbn_after = CleanIsbn(b.isbn)]

\* UserService.get_by_id / AsyncUserService.get_by_id after the request:
\* FileNotFoundError unless success is true; then the record is read from
\* json_data["response"], patched with its url and validated
UserGetById ==
    /\ lk.kind = "user"
    /\ lk.status = "pending"
    /\ lk' = [lk EXCEPT
                !.status = "done",
                !.result =
                    CASE lk.success # "true" -> "FileNotFoundError"
                      [] lk.response = "missing" -> "KeyError"
                      [] lk.response = "null" -> "TypeError"
                      [] lk.response = "empty" -> "KeyError"
                      [] lk.url = "missing" -> "KeyError"
                      [] ~lk.valid -> "ValidationError"
                      [] OTHER -> "User"]
    /\ UNCHANGED outsideLookup

\* BookService.get_by_id after the request: FileNotFoundError when
\* response.json().get("response") is missing, null or empty; then the record
\* is cleaned and validated, KeyError, ValueError and TypeError becoming
\* ParsingError
BookGetById ==
    /\ lk.kind = "book"
    /\ lk.status = "pending"
    /\ lk' =
        IF lk.response # "record"
        THEN [lk EXCEPT !.status = "done", !.result = "FileNotFoundError"]
        ELSE LET c == CleanBookJsonData(lk)
             IN [c EXCEPT
                    !.status = "done",
                    !.result =
                        CASE c.result = "KeyError" -> "ParsingError"
                          [] c.result = "AttributeError" -> "AttributeError"
                          [] ~c.valid -> "ParsingError"
                          [] OTHER -> "Book"]
    /\ UNCHANGED outsideLookup

LookupNext ==
    \/ UserGetById
    \/ BookGetById

(***************************************************************************)
(* The pagination loop of examples/pagination_search.py over               *)
(* BookService.search; the server shows the same counter on every page.    *)
(***************************************************************************)
LoopIdle == lp = [counter |-> NoCounter, page |-> 1, fetched |-> 0, pc |-> "idle", error |-> "none"]

\* page = 1, before the first fetch; the counter is the server's
LoopInit ==
    \E counter \in Counters :
        lp = [counter |-> counter, page |-> 1, fetched |-> 0, pc |-> "fetch", error |-> "none"]

\* mutant of LoopFetch: the page number advances by two
LoopFetchSkipsPage(items, transport) ==
    /\ lp.pc = "fetch"
    /\ LET r == Paginate(PendingCall("books.search", lp.page, 1, items, "none", lp.counter))
       IN  lp' = CASE transport = "fails" ->
                        [lp EXCEPT !.fetched = @ + 1, !.pc = "raised", !.error = "ParsingError"]
                   [] r.status = "raised" ->
                        [lp EXCEPT !.fetched = @ + 1, !.pc = "raised", !.error = r.error]
                   [] ~r.has_next_page ->
                        [lp EXCEPT !.fetched = @ + 1, !.pc = "done"]
                   [] OTHER ->
                        [lp EXCEPT !.fetched = @ + 1, !.page = @ + 2]
    /\ UNCHANGED outsideLoop

\* one turn of the loop: results = client.books.search(query, BookSearch.TITLE,
\* page=page), which raises ParsingError on a transport failure or a page it
\* cannot parse; then break unless results.has_next_page, else page += 1
LoopFetch(items, transport) ==
    /\ lp.pc = "fetch"
    /\ LET r == Paginate(PendingCall("books.search", lp.page, 1, items, "none", lp.counter))
       IN  lp' = CASE transport = "fails" ->
                        [lp EXCEPT !.fetched = @ + 1, !.pc = "raised", !.error = "ParsingError"]
                   [] r.status = "raised" ->
                        [lp EXCEPT !.fetched = @ + 1, !.pc = "raised", !.error = r.error]
                   [] ~r.has_next_page ->
                        [lp EXCEPT !.fetched = @ + 1, !.pc = "done"]
                   [] OTHER ->
                        [lp EXCEPT !.fetched = @ + 1, !.page = @ + 1]
    /\ UNCHANGED outsideLoop

LoopNext ==
    \E items \in ItemLists("books.search"), transport \in {"ok", "fails"} :
        LoopFetch(items, transport)

(***************************************************************************)
(* Two SkoobClient objects. Each builds one HttpxSyncClient and hands it   *)
(* to its six services; the first may be given a limiter by its caller,    *)
(* the second is built without one. Each client is used by one thread.     *)
(***************************************************************************)
\* RateLimiter.__init__'s defaults: max_calls = 1, period = 1.0
DefaultMaxCalls == 1
DefaultPeriod == 1

Clients == {1, 2}

\* the attributes of a SkoobClient that send requests
Services == {"auth", "books", "authors", "users", "me", "publishers"}

\* the limiter objects: the one the caller built, and the ones the http
\* clients make for themselves
LimiterIds == {"given", "own1", "own2"}

Own(k) == IF k = 1 THEN "own1" ELSE "own2"

RECURSIVE TrimFor(_, _, _)
\* _trim(now) on a limiter of period T
TrimFor(cs, now, T) ==
    IF cs # <<>> /\ now - Head(cs) >= T
    THEN TrimFor(Tail(cs), now, T)
    ELSE cs

FacadeStart(mc, T) ==
    [now |-> 0,
     sent |-> 0,
     params |-> [id \in LimiterIds |->
                    IF id = "given" THEN [max_calls |-> mc, period |-> T]
                    ELSE [max_calls |-> DefaultMaxCalls, period |-> DefaultPeriod]],
     calls |-> [id \in LimiterIds |-> <<>>],
     grants |-> [id \in LimiterIds |-> <<>>],
     used |-> [k \in Clients |-> {}],
     pc |-> [k \in Clients |-> "new"],
     http |-> [k \in Clients |-> [s \in Services |-> "none"]],
     lim |-> [k \in Clients |-> "none"],
     svc |-> [k \in Clients |-> "none"],
     ok |-> [k \in Clients |-> FALSE],
     wake |-> [k \in Clients |-> 0],
     logged |-> [k \in Clients |-> FALSE],
     logins |-> [k \in Clients |-> 0]]

FacadeIdle == fc = FacadeStart(DefaultMaxCalls, DefaultPeriod)

\* the limiter the caller of the first client has built allows MaxN calls
\* per MaxPeriod
FacadeInit == fc = FacadeStart(MaxN, MaxPeriod)

\* mutant of HttpLimiter: the clients without a limiter share one default
HttpLimiterShared(k, arg) == IF arg = "given" THEN "given" ELSE "own1"

\* HttpxSyncClient.__init__: self._rate_limiter = rate_limiter or RateLimiter()
HttpLimiter(k, arg) == IF arg = "given" THEN "given" ELSE Own(k)

\* SkoobClient(rate_limiter=...): one HttpxSyncClient, passed to every service
SkoobClientInit(k, arg) ==
    /\ fc.pc[k] = "new"
    /\ k = 2 => arg = "none"
    /\ fc' = [fc EXCEPT !.pc[k] = "idle",
                        !.http[k] = [s \in Services |-> k],
                        !.lim[k] = HttpLimiter(k, arg)]
    /\ UNCHANGED outsideFacade

\* the call is recorded on the limiter and the request is sent; a login
\* request that succeeds sets the login state of the client's AuthService
FacadeGrant(f, k, s, ok, cs) ==
    LET id == f.lim[f.http[k][s]]
    IN [f EXCEPT !.calls[id] = Append(cs, f.now),
                 !.grants[id] = Append(@, [t |-> f.now, by |-> k]),
                 !.used[k] = @ \cup {s},
                 !.pc[k] = "idle",
                 !.svc[k] = "none",
                 !.wake[k] = 0,
                 !.logged[k] = IF s = "auth" /\ ok THEN TRUE ELSE @,
                 !.logins[k] = IF s = "auth" /\ ok THEN @ + 1 ELSE @]

\* a request through service s of client k: the service's http client
\* acquires its limiter, sleeping first when the window is full
FacadeRequest(k, s, ok) ==
    /\ fc.pc[k] = "idle"
    /\ fc.sent < MaxFacadeRequests
    /\ ok => s = "auth"
    /\ LET id == fc.lim[fc.http[k][s]]
           cs == TrimFor(fc.calls[id], fc.now, fc.params[id].period)
       IN  IF Len(cs) >= fc.params[id].max_calls
           THEN fc' = [fc EXCEPT !.sent = @ + 1,
                                 !.calls[id] = cs,
                                 !.pc[k] = "sleeping",
                                 !.svc[k] = s,
                                 !.ok[k] = ok,
                                 !.wake[k] = fc.now + fc.params[id].period - (fc.now - cs[1])]
           ELSE fc' = FacadeGrant([fc EXCEPT !.sent = @ + 1], k, s, ok, cs)
    /\ UNCHANGED outsideFacade

\* the sleep of acquire() ends: trim again, record, send
FacadeWake(k) ==
    /\ fc.pc[k] = "sleeping"
    /\ fc.now >= fc.wake[k]
    /\ LET s == fc.svc[k]
           id == fc.lim[fc.http[k][s]]
       IN  fc' = FacadeGrant(fc, k, s, fc.ok[k],
                             TrimFor(fc.calls[id], fc.now, fc.params[id].period))
    /\ UNCHANGED outsideFacade

\* time passes
FacadeTick ==
    /\ \/ fc.now < MaxTime
       \/ \E k \in Clients : fc.pc[k] = "sleeping" /\ fc.now < fc.wake[k]
    /\ fc' = [fc EXCEPT !.now = @ + 1]
    /\ UNCHANGED outsideFacade

FacadeNext ==
    \/ \E k \in Clients, arg \in {"none", "given"} : SkoobClientInit(k, arg)
    \/ \E k \in Clients, s \in Services, ok \in BOOLEAN : FacadeRequest(k, s, ok)
    \/ \E k \in Clients : FacadeWake(k)
    \/ FacadeTick

(***************************************************************************)
(* Specifications                                                          *)
(***************************************************************************)
\* the parts a specification does not exercise stay as constructed
LimiterIdle ==
    /\ max_calls = 1
    /\ period = 1
    /\ calls = <<>>
    /\ lock = [p \in Paths |-> 0]
    /\ clock = 0
    /\ allowed = {"sync"}
    /\ pc = [c \in Callers |-> "idle"]
    /\ path = [c \in Callers |-> "none"]
    /\ wake = [c \in Callers |-> 0]
    /\ grants = <<>>

BackoffIdle ==
    /\ max_retries = 0
    /\ base_delay = 0
    /\ factor = 1
    /\ max_delay = 0

HttpIdle ==
    /\ h_kind = "sync"
    /\ arg_limiter = "none"
    /\ arg_retry = 0
    /\ rate_limiter = "unset"
    /\ hpc = "new"
    /\ method = "none"
    /\ attempt = 0
    /\ log = <<>>
    /\ result = "none"

Init == LimiterInit /\ BackoffIdle /\ DelayInit /\ HttpIdle /\ AuthInit /\ ServiceIdle /\ LifeIdle /\ PageInit /\ LookupIdle /\ LoopIdle /\ FacadeIdle

Next == LimiterNext

Spec == Init /\ [][Next]_vars

\* Liveness is about callers that all come through acquire() or all through
\* acquire_async(). Scheduling assumptions: time passes, a sleep that is due
\* ends, and a caller blocked on a free lock gets it.
FairInit == Init /\ Cardinality(allowed) = 1

FairSpec ==
    /\ FairInit
    /\ [][Next]_vars
    /\ WF_vars(Tick)
    /\ \A c \in Callers : WF_vars(Enter(c)) /\ WF_vars(Wake(c))

\* ExponentialBackoff alone: _compute_delay called with any attempt index
BackoffSpecInit == LimiterIdle /\ BackoffInit /\ DelayInit /\ HttpIdle /\ AuthInit /\ ServiceIdle /\ LifeIdle /\ PageInit /\ LookupIdle /\ LoopIdle /\ FacadeIdle

BackoffNext == \E a \in 0..MaxRetries : ComputeDelayCall(a)

BackoffSpec == BackoffSpecInit /\ [][BackoffNext]_vars

\* one HTTP client with its backoff: construction, then one get or post
HttpSpecInit == LimiterIdle /\ BackoffInit /\ DelayInit /\ HttpInit /\ AuthInit /\ ServiceIdle /\ LifeIdle /\ PageInit /\ LookupIdle /\ LoopIdle /\ FacadeIdle

HttpSpec == HttpSpecInit /\ [][HttpNext]_vars

\* one auth service and the calls made on it, one after the other
AuthSpecInit == LimiterIdle /\ BackoffIdle /\ DelayInit /\ HttpIdle /\ AuthInit /\ ServiceIdle /\ LifeIdle /\ PageInit /\ LookupIdle /\ LoopIdle /\ FacadeIdle

AuthSpec == AuthSpecInit /\ [][AuthNext]_vars

\* the services of one client facade: logins and service calls in any order
ServiceSpecInit ==
    LimiterIdle /\ BackoffIdle /\ DelayInit /\ HttpIdle /\ AuthInit /\ ServiceInit /\ LifeIdle /\ PageInit /\ LookupIdle /\ LoopIdle /\ FacadeIdle

\* one client facade and one BaseSkoobService, each constructed, used in a
\* with block or closed explicitly, in any order
LifeSpecInit ==
    LimiterIdle /\ BackoffIdle /\ DelayInit /\ HttpIdle /\ AuthInit /\ ServiceInit /\ LifeInit /\ PageInit /\ LookupIdle /\ LoopIdle /\ FacadeIdle

LifeSpec == LifeSpecInit /\ [][LifeNext]_vars

\* one call of a paginated endpoint, on any page the server can answer with
PageSpecInit ==
    LimiterIdle /\ BackoffIdle /\ DelayInit /\ HttpIdle /\ AuthInit /\ ServiceIdle /\ LifeIdle /\ PageCalls /\ LookupIdle /\ LoopIdle /\ FacadeIdle

PageSpec == PageSpecInit /\ [][PageNext]_vars

ServiceSpec == ServiceSpecInit /\ [][ServiceNext]_vars

\* one lookup by id, on any JSON body the server can answer with
LookupSpecInit ==
    LimiterIdle /\ BackoffIdle /\ DelayInit /\ HttpIdle /\ AuthInit /\ ServiceIdle /\ LifeIdle /\ PageInit /\ LookupInit /\ LoopIdle /\ FacadeIdle

LookupSpec == LookupSpecInit /\ [][LookupNext]_vars

\* the pagination loop; the program keeps running while it can take a step
LoopSpecInit ==
    LimiterIdle /\ BackoffIdle /\ DelayInit /\ HttpIdle /\ AuthInit /\ ServiceIdle /\ LifeIdle /\ PageInit /\ LookupIdle /\ LoopInit /\ FacadeIdle

\* two clients and the requests of their services, in any order
FacadeSpecInit ==
    LimiterIdle /\ BackoffIdle /\ DelayInit /\ HttpIdle /\ AuthInit /\ ServiceIdle /\ LifeIdle /\ PageInit /\ LookupIdle /\ LoopIdle /\ FacadeInit

FacadeSpec == FacadeSpecInit /\ [][FacadeNext]_vars

LoopSpec == LoopSpecInit /\ [][LoopNext]_vars /\ WF_vars(LoopNext)

(***************************************************************************)
(* Properties of the RateLimiter                                           *)
(***************************************************************************)
\* grant[i+N] - grant[i] >= T: no window of length T holds more than N grants
WindowRespected ==
    \A i \in 1..Len(grants) :
        i + max_calls <= Len(grants) =>
            grants[i + max_calls].t - grants[i].t >= period

\* only one caller has ever used the limiter
OneCaller ==
    \E c \in Callers :
        /\ \A i \in 1..Len(grants) : grants[i].by = c
        /\ \A d \in Callers \ {c} : pc[d] = "idle"

GrantsBy(c) == Cardinality({i \in 1..Len(grants) : grants[i].by = c})

\* C1: used by one caller, the grant times of any sequence of acquire() and
\* acquire_async() calls satisfy grant[i+N] - grant[i] >= T for every i.
C1_SequentialWindow == OneCaller => WindowRespected

\* C1 witness: one caller made three calls, through acquire() and through
\* acquire_async(), on a limiter of 2 calls per period, and the third was
\* granted exactly one period after the first.
C1_Witness ==
    /\ OneCaller
    /\ max_calls = 2
    /\ Len(grants) = 3
    /\ {grants[i].via : i \in 1..3} = Paths
    /\ grants[3].t - grants[1].t = period

\* C2: when the callers all come through acquire(), or all through
\* acquire_async(), then under every interleaving no more than N calls are
\* granted within any window of length T.
C2_ConcurrentWindow == Cardinality(allowed) = 1 => WindowRespected

\* C2 witness: three different callers were granted on a limiter of 2 calls
\* per period, the first two at the same instant, the last one period later.
C2_Witness ==
    /\ Cardinality(allowed) = 1
    /\ max_calls = 2
    /\ Len(grants) = 3
    /\ Cardinality({grants[i].by : i \in 1..3}) = 3
    /\ grants[1].t = grants[2].t
    /\ grants[3].t - grants[1].t = period

\* C3: while a caller sleeps because the window is full, the lock of its path
\* is not held.
C3_LockFreeWhileSleeping ==
    \A c \in Callers : pc[c] = "sleeping" => lock[path[c]] = 0

\* C4: no caller is starved: every call in progress (blocked on the lock or
\* sleeping) eventually returns, with a grant of that caller recorded.
C4_NoStarvation ==
    \A c \in Callers :
        (pc[c] # "idle") ~> (pc[c] = "idle" /\ GrantsBy(c) >= 1)

\* C4 witness: after a first grant, a caller is blocked on the lock that
\* another caller holds while it sleeps.
C4_Witness ==
    \E c, d \in Callers :
        /\ pc[c] = "waiting"
        /\ pc[d] = "sleeping"
        /\ path[c] = path[d]
        /\ lock[path[d]] = d
        /\ clock < wake[d]
        /\ Len(grants) >= 1

(***************************************************************************)
(* Properties of ExponentialBackoff                                        *)
(***************************************************************************)
\* C5: for every attempt index a >= 0 _compute_delay(a) returns
\* min(base_delay * factor^a, max_delay), which never exceeds max_delay.
C5_DelayIsCappedProduct ==
    bk_attempt >= 0 =>
        /\ bk_result.raised = "none"
        /\ bk_result.val <= max_delay
        /\ \/ bk_result.val = base_delay * Pow(factor, bk_attempt)
           \/ /\ bk_result.val = max_delay
              /\ base_delay * Pow(factor, bk_attempt) >= max_delay

(***************************************************************************)
(* Properties of the HTTP clients                                          *)
(***************************************************************************)
Events(e) == {i \in 1..Len(log) : log[i].e = e}
Sends == Cardinality(Events("send"))
Acquisitions == Cardinality(Events("acq"))
Fails == Cardinality({i \in Events("send") : log[i].r = "transport"})
Done == hpc \in {"returned", "raised"}

\* C6: with max_retries = K and a transport that fails on its first f
\* attempts, one get or post makes exactly min(f+1, K+1) transport calls: it
\* returns the first response, or re-raises the transport error once all K+1
\* attempts failed.
C6_AttemptCount ==
    (Done /\ \A i \in Events("send") : log[i].r # "other") =>
        \/ result = "response" /\ Sends = Fails + 1 /\ Sends <= max_retries + 1
        \/ result = "HTTPError" /\ Sends = max_retries + 1 /\ Fails = max_retries + 1

\* C7: only transport failures are retried: an exception of the request that
\* is not an httpx.HTTPError ends the call at once (no sleep, no acquisition
\* and no send after it) and is what the caller gets; raised by the first
\* attempt, it leaves exactly one acquisition and one send behind; and every
\* backoff sleep directly follows a transport failure.
C7_OnlyTransportRetried ==
    /\ \A i \in Events("send") :
            log[i].r = "other" => i = Len(log) /\ hpc = "raised" /\ result = "OtherError"
    /\ (Len(log) >= 2 /\ log[2].r = "other") => Len(log) = 2 /\ log[1].e = "acq"
    /\ \A i \in Events("sleep") :
            i > 1 /\ log[i - 1].e = "send" /\ log[i - 1].r = "transport"

\* C7 witness: with retries left, the first attempt raised an exception that
\* is no transport failure and the call ended with it.
C7_Witness ==
    /\ max_retries >= 1
    /\ hpc = "raised"
    /\ result = "OtherError"
    /\ Len(log) = 2

\* C8: every send, first attempt or retry, get or post, directly follows an
\* acquisition of its own on the client's limiter; acquisitions and sends are
\* equal in number (one more acquisition while a send is about to be made);
\* and the limiter is the one given to the constructor.
C8_AcquireBeforeEverySend ==
    /\ \A i \in Events("send") :
            i > 1 /\ log[i - 1].e = "acq" /\ log[i - 1].on = rate_limiter
    /\ Acquisitions = Sends + (IF hpc = "send" THEN 1 ELSE 0)
    /\ hpc \notin {"new", "ctor_raised"} =>
            rate_limiter = (IF arg_limiter = "given" THEN "given" ELSE "default")

\* C8 witness: a post of the asynchronous client, built with a limiter of the
\* caller, ended after two retries.
C8_Witness ==
    /\ h_kind = "async"
    /\ method = "post"
    /\ arg_limiter = "given"
    /\ Done
    /\ Sends = 3
    /\ Acquisitions = 3

\* C9: a client constructed with retry=Retry(max_attempts=M) exists, keeps
\* that policy, and calls the transport at most M times for one get.
C9_RetryPolicyKept ==
    (arg_retry # 0 /\ hpc # "new") =>
        /\ hpc # "ctor_raised"
        /\ Sends <= arg_retry

(***************************************************************************)
(* Properties of the auth services                                         *)
(***************************************************************************)
LoginRefused == last.op = "login" /\ last.post \in {"success_false", "no_success"}

\* C10 as stated: when the login POST answers success=false (or without a
\* success field), login raises ConnectionError, makes no user-info request,
\* and the logged-in state is False afterwards.
C10_RefusedLoginLoggedOut ==
    LoginRefused =>
        /\ last.result = "ConnectionError"
        /\ last.reqs = <<"POST">>
        /\ is_logged_in = FALSE

\* C10 as amended: such a login raises ConnectionError, makes no user-info
\* request, and leaves the logged-in state as it was before the call (False
\* on a service nothing was called on before).
C10_RefusedLoginKeepsState ==
    LoginRefused =>
        /\ last.result = "ConnectionError"
        /\ last.reqs = <<"POST">>
        /\ is_logged_in = last.before
        /\ auth_calls = 1 => is_logged_in = FALSE

\* C10 witness: the first call on a service is a login the server refuses
\* with success=false; the service is not logged in.
C10_Witness ==
    /\ LoginRefused
    /\ last.post = "success_false"
    /\ auth_calls = 1
    /\ ~is_logged_in

CookieLogin == last.op = "login_with_cookies"

\* C11: login_with_cookies(token) sets the logged-in state to True only after
\* the user-info request made with that token succeeded: when the user-info
\* response reports success=false the call raises ConnectionError and a state
\* that was False stays False; when the request succeeds the state is True
\* and the cookie jar holds PHPSESSID=token.
C11_CookieLoginAfterUserInfo ==
    CookieLogin =>
        /\ last.reqs = <<"GET">>
        /\ (is_logged_in /\ ~last.before) => last.result = "User"
        /\ last.info = "success_false" =>
                /\ last.result = "ConnectionError"
                /\ ~last.before => ~is_logged_in
        /\ last.info = "ok" =>
                /\ last.result = "User"
                /\ is_logged_in
                /\ cookies = last.token

\* C11 witness: on a service that was not logged in, login_with_cookies got a
\* user-info response with success=false; the service is still not logged in.
C11_Witness ==
    /\ CookieLogin
    /\ last.info = "success_false"
    /\ last.result = "ConnectionError"
    /\ ~last.before
    /\ ~is_logged_in
    /\ cookies = last.token

(***************************************************************************)
(* Properties of the services that need a login                            *)
(***************************************************************************)
\* the call was made through run_sync inside a running event loop
RefusedByRunSync == facade = "sync" /\ svc.service = "me" /\ svc.in_loop

C13_AsyncUserServiceNeedsLogin ==
    (facade = "async" /\ svc.service = "users" /\ ~svc.logged) =>
        /\ svc.result = "PermissionError"
        /\ svc.reqs = 0

RankingInRange == RatingMin <= svc.ranking /\ svc.ranking <= RatingMax

C15_ExitClosesAndPropagates ==
    /\ cl.last = "exit" =>
            /\ cl.http = "closed"
            /\ cl.exit = "False"
            /\ cl.propagated <=> cl.body = "raised"
    /\ cl.last = "close" => cl.http = "closed"

\* C15 witness: the with block of a SkoobAsyncClient was left because its
\* body raised; the http client is closed and the exception went on.
C15_Witness ==
    /\ facade = "async"
    /\ cl.last = "exit"
    /\ cl.body = "raised"
    /\ cl.http = "closed"
    /\ cl.propagated

\* C16: after close() or a context exit, a BaseSkoobService has closed its
\* http client if and only if it created that client itself (client=None); a
\* client supplied by the caller is never closed by the service.
C16_ClosesOnlyOwnClient ==
    /\ "given" \notin bs.closed
    /\ bs.last \in {"close", "exit"} =>
            /\ bs.client \in bs.closed <=> bs.arg = "none"
            /\ bs.arg = "none" => bs.client = "own"

\* C16 witness: a service built on a client of the caller left its with
\* block and closed nothing.
C16_Witness ==
    /\ bs.arg = "given"
    /\ bs.client = "given"
    /\ bs.last = "exit"
    /\ bs.closed = {}


(***************************************************************************)
(* Properties of the paginated endpoints                                   *)
(***************************************************************************)
PageReturned == pg.status = "returned"

\* the positions of the well-formed items of the page, in page order
WellFormed(items) ==
    LET F[i \in 0..Len(items)] ==
            IF i = 0 THEN <<>>
            ELSE IF items[i] = "ok" THEN Append(F[i - 1], i) ELSE F[i - 1]
    IN F[Len(items)]

\* C17: for every paginated endpoint and every page the server can return,
\* the returned Pagination has no more results than its limit:
\* len(results) <= limit.
C17_ResultsWithinLimit == PageReturned => Len(pg.results) <= pg.limit

\* C18: for every paginated endpoint that looks for a next-page marker,
\* has_next_page of the returned Pagination is True exactly when the marker
\* element is present in the fetched page and False exactly when it is absent.
C18_HasNextIsMarkerPresence ==
    (PageReturned /\ Query(pg.endpoint) # "nothing") =>
        (pg.has_next_page <=> pg.marker # "none")

\* C19: for BookService.search, has_next_page is True if and only if
\* page * 30 < total, where total is the count extracted from the page's
\* result counter (0 when the counter shows no count).
C19_SearchHasNextFromTotal ==
    (PageReturned /\ pg.endpoint = "books.search") =>
        /\ pg.total = (IF pg.counter.kind = "count" THEN pg.counter.n ELSE 0)
        /\ pg.has_next_page <=> (pg.page * SearchLimit < pg.total)

\* total 60: page 2 is the last page
C19_Witness ==
    /\ PageReturned
    /\ pg.endpoint = "books.search"
    /\ pg.page = 2
    /\ pg.total = 2 * SearchLimit
    /\ ~pg.has_next_page

\* C20: a malformed list item is skipped and does not abort the page:
\* BookService.search and the user-id list extraction return exactly the
\* well-formed items of the page, in page order, and raise nothing.
C20_MalformedItemsSkipped ==
    (pg.endpoint \in {"books.search", "books.get_users_by_status"} /\ pg.status # "pending") =>
        /\ PageReturned
        /\ pg.results = WellFormed(pg.items)


(***************************************************************************)
(* Properties of the lookups by id                                         *)
(***************************************************************************)
LookupDone == lk.status = "done"

\* C21: get_by_id raises FileNotFoundError whenever the JSON of the response
\* lacks the `response` key (or reports no record), for the user lookup and
\* for the book lookup; it returns no record and raises no other error then.
C21_NoResponseIsNotFound ==
    (LookupDone /\ lk.response # "record") => lk.result = "FileNotFoundError"

\* C22: cleaning a raw book record maps isbn "0" (or a missing isbn) to None
\* and leaves any other ISBN string unchanged.
C22_CleanIsbn ==
    lk.cleaned =>
        /\ lk.isbn \in {Missing, StrVal("0")} => lk.isbn_after = Null
        /\ (lk.isbn.t = "str" /\ lk.isbn.s # "0") => lk.isbn_after = lk.isbn

\* a book whose isbn only begins with a zero was cleaned and keeps its isbn
C22_Witness ==
    /\ LookupDone
    /\ lk.kind = "book"
    /\ lk.cleaned
    /\ lk.result = "Book"
    /\ lk.isbn = StrVal("00")
    /\ lk.isbn_after = StrVal("00")


(***************************************************************************)
(* Properties of run_sync                                                  *)
(***************************************************************************)
\* a synchronous profile operation, and a login that made no POST
SyncProfileCall == facade = "sync" /\ svc.service = "me"
LoginInLoop == last.op = "login" /\ last.post = "none"

\* C23: run_sync raises RuntimeError without running the coroutine when an
\* event loop is already running in the calling thread, and otherwise runs the
\* coroutine and hands on its outcome; so a synchronous service call built on
\* it (AuthService.login, the operations of SkoobProfileService) made inside a
\* running event loop fails before any HTTP request is sent.
C23_RunSyncRefusesRunningLoop ==
    /\ (SyncProfileCall /\ svc.in_loop) =>
            svc.result = "RuntimeError" /\ svc.reqs = 0
    /\ (SyncProfileCall /\ ~svc.in_loop) =>
            [reqs |-> svc.reqs, result |-> svc.result]
                = ProfileCall(svc.op, svc.ranking, svc.logged, svc.resp)
    /\ LoginInLoop =>
            last.result = "RuntimeError" /\ last.reqs = <<>> /\ is_logged_in = last.before

\* on a logged-in session a login and then a profile operation were made
\* inside a running event loop, and both were refused
C23_Witness ==
    /\ SyncProfileCall
    /\ svc.in_loop
    /\ svc.logged
    /\ svc.result = "RuntimeError"
    /\ svc.reqs = 0
    /\ LoginInLoop
    /\ last.result = "RuntimeError"


(***************************************************************************)
(* Properties of the backoff sleeps of one request                         *)
(***************************************************************************)
\* the number of sends among the first i entries of the log
SendsUpTo(i) == Cardinality({j \in Events("send") : j <= i})

\* the delay after failed attempt a: base_delay * factor^a, capped at max_delay
CappedDelay(a) ==
    IF base_delay * Pow(factor, a) >= max_delay
    THEN max_delay
    ELSE base_delay * Pow(factor, a)

\* C24: in one get/post a backoff sleep happens only between two attempts:
\* after failed attempt number i (counted from 0, i < max_retries) the client
\* sleeps delay(i), the first retry waiting base_delay (max_delay permitting),
\* then it acquires the limiter and sends attempt i+1; there is no backoff
\* sleep before the first attempt or after the final failed attempt.
C24_SleepOnlyBetweenAttempts ==
    /\ \A i \in Events("sleep") :
            /\ i > 1
            /\ log[i - 1].e = "send"
            /\ log[i - 1].r = "transport"
            /\ SendsUpTo(i) <= max_retries
            /\ log[i].d = CappedDelay(SendsUpTo(i) - 1)
            /\ (SendsUpTo(i) = 1 /\ base_delay <= max_delay) => log[i].d = base_delay
            /\ i + 1 <= Len(log) => log[i + 1].e = "acq"
            /\ i + 2 <= Len(log) => log[i + 2].e = "send"
    /\ \A i \in Events("send") :
            (log[i].r = "transport" /\ SendsUpTo(i) <= max_retries /\ hpc # "sleep") =>
                (i + 1 <= Len(log) /\ log[i + 1].e = "sleep")
    /\ Done => (log = <<>> \/ log[Len(log)].e # "sleep")


(***************************************************************************)
(* Properties of the pagination loop                                       *)
(***************************************************************************)
\* max(1, ceil(total / 30)) for the total of the server's counter
PagesOf(total) ==
    IF total = 0 THEN 1 ELSE (total + SearchLimit - 1) \div SearchLimit

LoopEnded == lp.pc \in {"done", "raised"}

LoopCount ==
    /\ lp.fetched <= PagesOf(ExtractTotal(lp.counter))
    /\ lp.pc = "done" => lp.fetched = PagesOf(ExtractTotal(lp.counter))
    /\ lp.pc = "fetch" => lp.page = lp.fetched + 1

AuthCallRaised == last.op \in {"login", "login_with_cookies"} /\ last.result # "User"

\* C26: the logged-in state is True only if some login() or
\* login_with_cookies() call has returned a User: whenever either call raises
\* for any reason (failed POST, invalid JSON, success=false, or a failing
\* user-info fetch after the login POST succeeded), the logged-in state is the
\* same as before the call.
C26_RaisedCallKeepsLoginState == AuthCallRaised => is_logged_in = last.before


(***************************************************************************)
(* Properties of the timestamp queue                                       *)
(***************************************************************************)
\* the callers inside the locked block of acquire() / acquire_async(): a
\* caller that sleeps has read the queue and will trim and append to it
InBlock == {c \in Callers : pc[c] = "sleeping"}

Ordered(cs) == \A i, j \in 1..Len(cs) : i <= j => cs[i] <= cs[j]

\* C27: the timestamp queue of one RateLimiter is never used by two callers at
\* the same time, also when one comes through acquire() and another through
\* acquire_async(): no two callers are inside the locked block together, and
\* under every interleaving the queue stays ordered by time and no window of
\* length period holds more than max_calls grants.
C27_QueueUsedByOneCaller ==
    /\ Cardinality(InBlock) <= 1
    /\ Ordered(calls)
    /\ WindowRespected

\* c returns from acquire() / acquire_async() in this step
Completes(c) == pc[c] # "idle" /\ pc'[c] = "idle"

\* C30: after every completed acquire() or acquire_async() the queue holds at
\* most max_calls entries, its last entry is the grant just recorded, and
\* every entry t in it satisfies (grant time - t) < period; when the call has
\* to wait, the single computed sleep is greater than 0 and at most period.
C30_QueueAfterAcquire ==
    [][\A c \in Callers :
            /\ Completes(c) =>
                    /\ Len(calls') <= max_calls
                    /\ calls' # <<>>
                    /\ calls'[Len(calls')] = clock
                    /\ grants'[Len(grants')] = [t |-> clock, by |-> c, via |-> path[c]]
                    /\ \A i \in 1..Len(calls') : clock - calls'[i] < period
            /\ (pc[c] = "waiting" /\ pc'[c] = "sleeping") =>
                    /\ wake'[c] - clock > 0
                    /\ wake'[c] - clock <= period]_vars


(***************************************************************************)
(* Properties of the services of a SkoobClient                             *)
(***************************************************************************)
Built(k) == fc.pc[k] # "new"

\* grant[i+N] - grant[i] >= T on the limiter id
FacadeWindow(id) ==
    \A i \in 1..Len(fc.grants[id]) :
        i + fc.params[id].max_calls <= Len(fc.grants[id]) =>
            fc.grants[id][i + fc.params[id].max_calls].t - fc.grants[id][i].t
                >= fc.params[id].period

GrantsOf(k, id) == {i \in 1..Len(fc.grants[id]) : fc.grants[id][i].by = k}

\* C28: all services of one SkoobClient send through the same HTTP client and
\* so through the same rate limiter: their requests, in any order, together
\* never exceed max_calls per period; a second SkoobClient built without an
\* explicit limiter has its own limiter and login state, and is never delayed
\* or logged in by the first.
C28_OneLimiterPerClient ==
    /\ \A k \in Clients : Built(k) =>
            /\ \A s \in Services : fc.http[k][s] = k
            /\ \A id \in LimiterIds \ {fc.lim[k]} : GrantsOf(k, id) = {}
    /\ \A id \in LimiterIds : FacadeWindow(id)
    /\ Built(2) =>
            /\ Built(1) => fc.lim[2] # fc.lim[1]
            /\ GrantsOf(1, fc.lim[2]) = {}
            /\ \A i \in 1..Len(fc.calls[fc.lim[2]]) :
                    \E j \in GrantsOf(2, fc.lim[2]) :
                        fc.grants[fc.lim[2]][j].t = fc.calls[fc.lim[2]][i]
    /\ \A k \in Clients : fc.logged[k] <=> fc.logins[k] >= 1

\* the first client, built without a limiter, logged in and sent a second
\* request through another service, which its limiter delayed by a period;
\* the second client sent a request at the time of the first one's login and
\* is not logged in
C28_Witness ==
    /\ Built(1) /\ Built(2)
    /\ fc.lim[1] = "own1"
    /\ Len(fc.grants["own1"]) = 2
    /\ fc.grants["own1"][2].t - fc.grants["own1"][1].t = DefaultPeriod
    /\ "auth" \in fc.used[1]
    /\ Cardinality(fc.used[1]) = 2
    /\ fc.logged[1]
    /\ Len(fc.grants["own2"]) = 1
    /\ fc.grants["own2"][1].t = fc.grants["own1"][1].t
    /\ ~fc.logged[2]


====
